---- MODULE Spec2Model ----
(***************************************************************************)
(* Model of src/Python/oro.py: a linear script, run cell by cell, that     *)
(* fetches a monthly gold price series, plots it, loads the INE CPI CSV,   *)
(* joins both on the period, builds the cumulative CPI index, deflates the *)
(* price and derives growth metrics, writes a CSV and computes CAGRs.      *)
(*                                                                         *)
(* float64 values are modelled as exact rationals extended with the IEEE   *)
(* special values (signed zero, +-inf, NaN).  The inputs are drawn from    *)
(* small integers whose factors 1 + rate/100 are 0, +-1 and 2, for which   *)
(* every float64 operation of the script is exact, so the rational value   *)
(* is the float64 value.  The one irrational operation, x ** y with a      *)
(* non-integer y, keeps only the class of its result (kind "irr").         *)
(***************************************************************************)
EXTENDS Integers, Sequences, FiniteSets, TLC

\* Bounds of the model: the largest number of rows of the fetched gold
\* series and of the monthly-variation rows of the CPI file.
MaxGold == 3
MaxCpi == 2

----------------------------------------------------------------------------
(* float64 arithmetic *)

Abs(i) == IF i < 0 THEN -i ELSE i

Sgn(i) == IF i < 0 THEN -1 ELSE 1

RECURSIVE GCD(_, _)
GCD(a, b) == IF b = 0 THEN a ELSE GCD(b, a % b)

\* A finite float of sign s and magnitude n/d, in lowest terms; a zero keeps
\* its sign.
Fin(s, n, d) ==
    IF n = 0 THEN [k |-> "fin", s |-> s, n |-> 0, d |-> 1]
    ELSE LET g == GCD(n, d) IN [k |-> "fin", s |-> s, n |-> n \div g, d |-> d \div g]

FromInt(i) == Fin(Sgn(i), Abs(i), 1)

NaN == [k |-> "nan", s |-> 1, n |-> 0, d |-> 1]

Inf(s) == [k |-> "inf", s |-> s, n |-> 1, d |-> 0]

\* A finite, nonzero float of sign s whose magnitude the model does not
\* track: the result of x ** y - 1 for a non-integer y.
Irr(s) == [k |-> "irr", s |-> s, n |-> 1, d |-> 1]

\* A name the script has not bound yet.
Unset == [k |-> "unset", s |-> 1, n |-> 0, d |-> 1]

IsNaN(a) == a.k = "nan"

IsInf(a) == a.k = "inf"

IsZero(a) == a.k = "fin" /\ a.n = 0

FNeg(a) == IF IsNaN(a) THEN a ELSE [a EXCEPT !.s = -a.s]

FMul(a, b) ==
    IF IsNaN(a) \/ IsNaN(b) THEN NaN
    ELSE IF IsInf(a) \/ IsInf(b)
         THEN IF IsZero(a) \/ IsZero(b) THEN NaN ELSE Inf(a.s * b.s)
    ELSE IF a.k = "irr" \/ b.k = "irr"
         THEN IF IsZero(a) \/ IsZero(b) THEN Fin(a.s * b.s, 0, 1) ELSE Irr(a.s * b.s)
    ELSE LET g == GCD(a.n, b.d)
             h == GCD(b.n, a.d)
         IN  Fin(a.s * b.s, (a.n \div g) * (b.n \div h), (a.d \div h) * (b.d \div g))

\* numpy / pandas true division: a zero divisor gives inf or NaN (with a
\* RuntimeWarning), never an exception.
FDiv(a, b) ==
    IF IsNaN(a) \/ IsNaN(b) THEN NaN
    ELSE IF IsInf(a) THEN (IF IsInf(b) THEN NaN ELSE Inf(a.s * b.s))
    ELSE IF IsInf(b) THEN Fin(a.s * b.s, 0, 1)
    ELSE IF IsZero(b) THEN (IF IsZero(a) THEN NaN ELSE Inf(a.s * b.s))
    ELSE FMul(a, Fin(b.s, b.d, b.n))

FAdd(a, b) ==
    IF IsNaN(a) \/ IsNaN(b) THEN NaN
    ELSE IF IsInf(a) THEN (IF IsInf(b) /\ b.s # a.s THEN NaN ELSE a)
    ELSE IF IsInf(b) THEN b
    ELSE LET num == a.s * a.n * b.d + b.s * b.n * a.d
         IN  IF num = 0
             THEN Fin(IF IsZero(a) /\ IsZero(b) /\ a.s = -1 /\ b.s = -1 THEN -1 ELSE 1, 0, 1)
             ELSE Fin(Sgn(num), Abs(num), a.d * b.d)

FSub(a, b) == FAdd(a, FNeg(b))

\* a ** e for an integer e >= 1.
RECURSIVE FPowInt(_, _)
FPowInt(a, e) == IF e = 1 THEN a ELSE FMul(a, FPowInt(a, e - 1))

\* a ** y - 1 for a float a and a positive finite float y, as numpy computes
\* it: a negative base under a non-integer exponent gives NaN (a
\* RuntimeWarning, no exception), 1 ** y is 1, and a result that is not
\* rational keeps only its sign, which is that of a - 1.
FPowM1(a, y) ==
    IF y.d = 1 THEN FSub(FPowInt(a, y.n), FromInt(1))
    ELSE IF IsNaN(a) THEN NaN
    ELSE IF IsInf(a) THEN Inf(1)
    ELSE IF IsZero(a) THEN FromInt(-1)
    ELSE IF a.s = -1 THEN NaN
    ELSE IF a.n = a.d THEN FromInt(0)
    ELSE Irr(IF a.n > a.d THEN 1 ELSE -1)

\* Variant of PyTrueDiv that divides as numpy does, raising nothing: C4
\* must fail under it.
NumpyTrueDiv(a, b) == [raised |-> FALSE, val |-> FDiv(a, b)]

\* Python's own true division (int / float, int / int): a zero divisor
\* raises ZeroDivisionError.
PyTrueDiv(a, b) ==
    IF IsZero(b) THEN [raised |-> TRUE, val |-> Unset]
    ELSE [raised |-> FALSE, val |-> FDiv(a, b)]

----------------------------------------------------------------------------
(* Timestamps and the textual periods of the CPI file *)

Date(y, m, d) == [year |-> y, month |-> m, day |-> d]

DateGE(a, b) ==
    \/ a.year > b.year
    \/ a.year = b.year /\ a.month > b.month
    \/ a.year = b.year /\ a.month = b.month /\ a.day >= b.day

IsLeap(y) == (y % 4 = 0 /\ y % 100 # 0) \/ y % 400 = 0

DaysBeforeYear(y) ==
    LET p == y - 1 IN 365 * p + p \div 4 - p \div 100 + p \div 400

DaysBeforeMonth(y, m) ==
    <<0, 31, 59, 90, 120, 151, 181, 212, 243, 273, 304, 334>>[m]
        + (IF m > 2 /\ IsLeap(y) THEN 1 ELSE 0)

Ordinal(t) == DaysBeforeYear(t.year) + DaysBeforeMonth(t.year, t.month) + t.day

\* (a - b).days for two Timestamps.
DaysBetween(a, b) == Ordinal(a) - Ordinal(b)

Digits == <<"0", "1", "2", "3", "4", "5", "6", "7", "8", "9">>

IsDigit(c) == \E i \in 1..10 : Digits[i] = c

DigitVal(c) == (CHOOSE i \in 1..10 : Digits[i] = c) - 1

\* An integer as n decimal characters, zero padded.
RECURSIVE Chars(_, _)
Chars(v, n) == IF n = 0 THEN <<>> ELSE Append(Chars(v \div 10, n - 1), Digits[(v % 10) + 1])

\* The period text of the INE file: "<year>M<month>", such as 2000M01.
PeriodoText(y, m) == Chars(y, 4) \o <<"M">> \o Chars(m, 2)

\* str.replace(old, new) on a text given as its characters.
StrReplace(s, old, new) == [i \in 1..Len(s) |-> IF s[i] = old THEN new ELSE s[i]]

RECURSIVE Number(_)
Number(s) == IF s = <<>> THEN 0 ELSE 10 * Number(SubSeq(s, 1, Len(s) - 1)) + DigitVal(s[Len(s)])

\* pd.to_datetime of one "<year>-<month>" text: the first day of that month,
\* or a ValueError when the text is no date.
ToDatetime(s) ==
    IF /\ Len(s) = 7
       /\ s[5] = "-"
       /\ \A i \in {1, 2, 3, 4, 6, 7} : IsDigit(s[i])
       /\ Number(SubSeq(s, 6, 7)) \in 1..12
    THEN [raised |-> FALSE, val |-> Date(Number(SubSeq(s, 1, 4)), Number(SubSeq(s, 6, 7)), 1)]
    ELSE [raised |-> TRUE, val |-> Date(0, 0, 0)]

----------------------------------------------------------------------------
(* Inputs: what the two data sources may return *)

\* The months the sources may cover: one before the start date, two of the
\* same year (a leap year) and one of the next year.
AllPeriods == <<Date(1999, 12, 1), Date(2000, 1, 1), Date(2000, 2, 1), Date(2001, 1, 1)>>

Values == {FromInt(0), FromInt(1), FromInt(2)}

Rates == {FromInt(-200), FromInt(-100), FromInt(0), FromInt(100)}

PeriodSets(max) == {I \in SUBSET (1..Len(AllPeriods)) : Cardinality(I) <= max}

RECURSIVE Ascending(_)
Ascending(I) ==
    IF I = {} THEN <<>>
    ELSE LET m == CHOOSE x \in I : \A y \in I : x <= y
         IN  <<m>> \o Ascending(I \ {m})

Reverse(s) == [i \in 1..Len(s) |-> s[Len(s) + 1 - i]]

\* A series as fetch_series returns it: one row per period, ascending.
GoldFrame(I, v) ==
    LET idx == Ascending(I)
    IN  [i \in 1..Len(idx) |-> [period |-> AllPeriods[idx[i]], value |-> v[idx[i]]]]

GoldFrames == UNION {{GoldFrame(I, v) : v \in [I -> Values]} : I \in PeriodSets(MaxGold)}

\* One row of the INE file: the columns 'Tipo de dato', 'Periodo', 'Total'.
\* The data types are written here without their accents.
CsvRow(tipo, y, m, total) == [Tipo |-> tipo, Periodo |-> PeriodoText(y, m), Total |-> total]

RECURSIVE CsvRows(_, _, _)
CsvRows(idx, r, other) ==
    IF idx = <<>> THEN <<>>
    ELSE LET p == AllPeriods[Head(idx)]
         IN  (IF other THEN <<CsvRow("Indice", p.year, p.month, FromInt(100))>> ELSE <<>>)
             \o <<CsvRow("Variacion mensual", p.year, p.month, r[Head(idx)])>>
             \o CsvRows(Tail(idx), r, other)

\* The file as INE publishes it, newest period first; with `other`, each
\* period also has a row of another data type.
CsvFile(I, r, other) == CsvRows(Reverse(Ascending(I)), r, other)

CsvFiles ==
    UNION {{CsvFile(I, r, other) : r \in [I -> Rates], other \in BOOLEAN} : I \in PeriodSets(MaxCpi)}

\* Files with a monthly-variation row whose period text names no month.
CorruptCsvFiles ==
    UNION {{Append(CsvFile(I, r, FALSE), CsvRow("Variacion mensual", 2000, 13, FromInt(0)))
              : r \in [I -> Rates]} : I \in PeriodSets(1)}

----------------------------------------------------------------------------
(* State *)

VARIABLES
    pc,             \* the cell the script runs next, or "done" / "aborted"
    err,            \* the exception that ended the run, or "none"
    df,             \* the fetched gold series
    df_oro,         \* the gold series since the start date
    df_ipc,         \* the CPI frame
    df_oro_ipc,     \* the merged frame, column by column
    ipc_base,
    cagr_per_year,
    valor_inicial,
    valor_final,
    n_years,
    cagr,
    plots,          \* the figures shown so far
    files,          \* the CSV files written so far
    stdout          \* the values printed so far

vars == <<pc, err, df, df_oro, df_ipc, df_oro_ipc, ipc_base, cagr_per_year,
          valor_inicial, valor_final, n_years, cagr, plots, files, stdout>>

\* A frame: the names of its columns, in order, and each column's values.
EmptyFrame ==
    [columns |-> <<>>, period |-> <<>>, value |-> <<>>, IPC |-> <<>>, IPC_indice |-> <<>>,
     value_real |-> <<>>, real_monthly_change |-> <<>>, real_cumulative_change |-> <<>>,
     real_annualized_change |-> <<>>, year |-> <<>>]

NRows(f) == Len(f.period)

Init ==
    /\ pc = "fetch"
    /\ err = "none"
    /\ df = <<>>
    /\ df_oro = <<>>
    /\ df_ipc = <<>>
    /\ df_oro_ipc = EmptyFrame
    /\ ipc_base = Unset
    /\ cagr_per_year = <<>>
    /\ valor_inicial = Unset
    /\ valor_final = Unset
    /\ n_years = Unset
    /\ cagr = Unset
    /\ plots = <<>>
    /\ files = {}
    /\ stdout = <<>>

\* An unhandled exception ends the run.
Raise(e) == pc' = "aborted" /\ err' = e

----------------------------------------------------------------------------
(* The cells of the script *)

\* fetch_series(...): the series, or a failed request.
FetchCell ==
    /\ pc = "fetch"
    /\ \/ /\ \E g \in GoldFrames : df' = g
          /\ pc' = "filter"
          /\ UNCHANGED err
       \/ /\ Raise("FetchError")
          /\ UNCHANGED df
    /\ UNCHANGED <<df_oro, df_ipc, df_oro_ipc, ipc_base, cagr_per_year, valor_inicial,
                   valor_final, n_years, cagr, plots, files, stdout>>

StartDate == Date(2000, 1, 1)

\* Variant of FilterSince that keeps only the periods after the start date
\* (> for >=): C2 must fail under it.
FilterAfter(frame, start) ==
    SelectSeq(frame, LAMBDA row : DateGE(row.period, start) /\ row.period # start)

\* df[df['period'] >= '2000-01-01'][['period', 'value']]
FilterSince(frame, start) == SelectSeq(frame, LAMBDA row : DateGE(row.period, start))

\* Variant of FilterPlotCell that never shows its figure: C5 must fail
\* under it.
FilterCellNoPlot ==
    /\ pc = "filter"
    /\ df_oro' = FilterSince(df, StartDate)
    /\ pc' = "cpi"
    /\ UNCHANGED <<err, df, df_ipc, df_oro_ipc, ipc_base, cagr_per_year, valor_inicial,
                   valor_final, n_years, cagr, plots, files, stdout>>

FilterPlotCell ==
    /\ pc = "filter"
    /\ df_oro' = FilterSince(df, StartDate)
    /\ plots' = Append(plots, "nominal")
    /\ pc' = "cpi"
    /\ UNCHANGED <<err, df, df_ipc, df_oro_ipc, ipc_base, cagr_per_year, valor_inicial,
                   valor_final, n_years, cagr, files, stdout>>

\* df_ipc[df_ipc['Tipo de dato'] == 'Variación mensual']
MonthlyRows(csv) == SelectSeq(csv, LAMBDA row : row.Tipo = "Variacion mensual")

\* pd.to_datetime(df_ipc['Periodo'].str.replace('M', '-'), format='mixed')
ParsePeriodo(text) == ToDatetime(StrReplace(text, "M", "-"))

\* [['period', 'Total']].rename(columns={'Total': 'IPC'})
CpiFrame(rows) ==
    [i \in 1..Len(rows) |-> [period |-> ParsePeriodo(rows[i].Periodo).val, IPC |-> rows[i].Total]]

CpiCell ==
    /\ pc = "cpi"
    /\ \/ /\ Raise("URLError")
          /\ UNCHANGED df_ipc
       \/ \E csv \in CsvFiles \cup CorruptCsvFiles :
            LET rows == MonthlyRows(csv)
            IN  IF \E i \in 1..Len(rows) : ParsePeriodo(rows[i].Periodo).raised
                THEN Raise("ValueError") /\ df_ipc' = rows
                ELSE df_ipc' = CpiFrame(rows) /\ pc' = "merge" /\ UNCHANGED err
    /\ UNCHANGED <<df, df_oro, df_oro_ipc, ipc_base, cagr_per_year, valor_inicial,
                   valor_final, n_years, cagr, plots, files, stdout>>

\* Variant of Merge joining with how='left': a left row with no match is
\* kept, its IPC missing.  C3 must fail under it.
RECURSIVE MergeLeft(_, _)
MergeLeft(left, right) ==
    IF left = <<>> THEN <<>>
    ELSE LET l == Head(left)
             hits == SelectSeq(right, LAMBDA r : r.period = l.period)
         IN  (IF hits = <<>>
              THEN <<[period |-> l.period, value |-> l.value, IPC |-> NaN]>>
              ELSE [i \in 1..Len(hits) |->
                      [period |-> l.period, value |-> l.value, IPC |-> hits[i].IPC]])
             \o MergeLeft(Tail(left), right)

\* pd.merge(left, right, on='period', how='inner'): for each left row, in the
\* left order, one row per right row of the same period.
RECURSIVE Merge(_, _)
Merge(left, right) ==
    IF left = <<>> THEN <<>>
    ELSE LET l == Head(left)
             hits == SelectSeq(right, LAMBDA r : r.period = l.period)
         IN  [i \in 1..Len(hits) |-> [period |-> l.period, value |-> l.value, IPC |-> hits[i].IPC]]
             \o Merge(Tail(left), right)

MergedFrame(rows) ==
    [EmptyFrame EXCEPT !.columns = <<"period", "value", "IPC">>,
                       !.period = [i \in 1..Len(rows) |-> rows[i].period],
                       !.value = [i \in 1..Len(rows) |-> rows[i].value],
                       !.IPC = [i \in 1..Len(rows) |-> rows[i].IPC]]

MergeCell ==
    /\ pc = "merge"
    /\ df_oro_ipc' = MergedFrame(Merge(df_oro, df_ipc))
    /\ pc' = "real"
    /\ UNCHANGED <<err, df, df_oro, df_ipc, ipc_base, cagr_per_year, valor_inicial,
                   valor_final, n_years, cagr, plots, files, stdout>>

\* A new column, after the ones the frame has.
WithColumn(f, name) == [f EXCEPT !.columns = Append(f.columns, name)]

\* Series.cumprod()
RECURSIVE CumProd(_)
CumProd(s) ==
    IF s = <<>> THEN <<>>
    ELSE LET front == CumProd(SubSeq(s, 1, Len(s) - 1))
         IN  Append(front, IF front = <<>> THEN s[Len(s)]
                           ELSE FMul(front[Len(front)], s[Len(s)]))

\* Variant of IpcIndice without the factor 100: C9 must fail under it.
IpcIndiceNoBase(ipc) ==
    CumProd([i \in 1..Len(ipc) |-> FAdd(FromInt(1), FDiv(ipc[i], FromInt(100)))])

\* 100 * (1 + IPC / 100).cumprod()
IpcIndice(ipc) ==
    LET factor == [i \in 1..Len(ipc) |-> FAdd(FromInt(1), FDiv(ipc[i], FromInt(100)))]
        prod == CumProd(factor)
    IN  [i \in 1..Len(ipc) |-> FMul(FromInt(100), prod[i])]

\* Variant of ValueReal that deflates against a base of 100 instead of the
\* first index value: C1 must fail under it.
ValueRealBase100(value, indice) ==
    [i \in 1..Len(value) |-> FMul(value[i], FDiv(FromInt(100), indice[i]))]

\* value * (IPC_indice.iloc[0] / IPC_indice)
ValueReal(value, indice) ==
    [i \in 1..Len(value) |-> FMul(value[i], FDiv(indice[1], indice[i]))]

\* The index, the real price and the second figure.  On an empty merged
\* frame the first statement, IPC.iloc[0], raises IndexError.
RealCell ==
    /\ pc = "real"
    /\ IF NRows(df_oro_ipc) = 0
       THEN /\ Raise("IndexError")
            /\ UNCHANGED <<ipc_base, df_oro_ipc, plots>>
       ELSE /\ ipc_base' = df_oro_ipc.IPC[1]
            /\ LET indice == IpcIndice(df_oro_ipc.IPC)
                   withIndice == [WithColumn(df_oro_ipc, "IPC_indice") EXCEPT !.IPC_indice = indice]
               IN  df_oro_ipc' = [WithColumn(withIndice, "value_real")
                                     EXCEPT !.value_real = ValueReal(withIndice.value, withIndice.IPC_indice)]
            /\ plots' = Append(plots, "nominal_vs_real")
            /\ pc' = "changes"
            /\ UNCHANGED err
    /\ UNCHANGED <<df, df_oro, df_ipc, cagr_per_year, valor_inicial, valor_final,
                   n_years, cagr, files, stdout>>

\* Series.ffill(): a NaN takes the last value before it that is not NaN.
RECURSIVE FFill(_)
FFill(s) ==
    IF s = <<>> THEN <<>>
    ELSE LET front == FFill(SubSeq(s, 1, Len(s) - 1))
             last == s[Len(s)]
         IN  Append(front, IF IsNaN(last) /\ front # <<>> THEN front[Len(front)] ELSE last)

\* Series.pct_change(): data / data.shift(1) - 1, where data is the series
\* itself, or (fill_method='pad', the default before pandas 3) the series
\* forward filled.
PctChange(s, pad) ==
    LET data == IF pad THEN FFill(s) ELSE s
    IN  [i \in 1..Len(s) |->
            IF i = 1 THEN NaN ELSE FSub(FDiv(data[i], data[i - 1]), FromInt(1))]

\* value_real.pct_change() * 100
RealMonthlyChange(value_real, pad) ==
    LET pct == PctChange(value_real, pad)
    IN  [i \in 1..Len(pct) |-> FMul(pct[i], FromInt(100))]

\* (value_real / value_real.iloc[0] - 1) * 100
RealCumulativeChange(value_real) ==
    [i \in 1..Len(value_real) |->
        FMul(FSub(FDiv(value_real[i], value_real[1]), FromInt(1)), FromInt(100))]

\* The monthly and the cumulative change, and the third figure.  Which
\* pct_change the installed pandas has is not fixed by the script.
ChangesCell ==
    /\ pc = "changes"
    /\ \E pad \in BOOLEAN :
         LET withMonthly == [WithColumn(df_oro_ipc, "real_monthly_change")
                                EXCEPT !.real_monthly_change = RealMonthlyChange(df_oro_ipc.value_real, pad)]
         IN  df_oro_ipc' = [WithColumn(withMonthly, "real_cumulative_change")
                               EXCEPT !.real_cumulative_change = RealCumulativeChange(withMonthly.value_real)]
    /\ plots' = Append(plots, "cumulative")
    /\ pc' = "annualized"
    /\ UNCHANGED <<err, df, df_oro, df_ipc, ipc_base, cagr_per_year, valor_inicial,
                   valor_final, n_years, cagr, files, stdout>>

\* ((1 + real_monthly_change / 100) ** 12 - 1) * 100
RealAnnualizedChange(monthly) ==
    [i \in 1..Len(monthly) |->
        FMul(FSub(FPowInt(FAdd(FromInt(1), FDiv(monthly[i], FromInt(100))), 12), FromInt(1)),
             FromInt(100))]

AnnualizedCell ==
    /\ pc = "annualized"
    /\ df_oro_ipc' = [WithColumn(df_oro_ipc, "real_annualized_change")
                         EXCEPT !.real_annualized_change = RealAnnualizedChange(df_oro_ipc.real_monthly_change)]
    /\ plots' = Append(plots, "annualized")
    /\ pc' = "to_csv"
    /\ UNCHANGED <<err, df, df_oro, df_ipc, ipc_base, cagr_per_year, valor_inicial,
                   valor_final, n_years, cagr, files, stdout>>

\* Variant of ToCsv that writes the period and value columns only: C6 must
\* fail under it.
ToCsvGoldOnly(f, name) ==
    [name |-> name,
     frame |-> [EmptyFrame EXCEPT !.columns = <<"period", "value">>,
                                  !.period = f.period, !.value = f.value]]

\* df_oro_ipc.to_csv('precio_oro_eur.csv', index=False): the frame as it
\* is when the statement runs.
ToCsv(f, name) == [name |-> name, frame |-> f]

ToCsvCell ==
    /\ pc = "to_csv"
    /\ files' = {w \in files : w.name # "precio_oro_eur.csv"}
                    \cup {ToCsv(df_oro_ipc, "precio_oro_eur.csv")}
    /\ pc' = "cagr_per_year"
    /\ UNCHANGED <<err, df, df_oro, df_ipc, df_oro_ipc, ipc_base, cagr_per_year,
                   valor_inicial, valor_final, n_years, cagr, plots, stdout>>

\* period.dt.year
YearColumn(period) == [i \in 1..Len(period) |-> period[i].year]

\* The rows of one group of groupby('year'), in the frame's order.
GroupRows(year, y) == SelectSeq([i \in 1..Len(year) |-> i], LAMBDA i : year[i] = y)

\* Variant of CagrYear that forgets the "- 1": C10 must fail under it.
CagrYearNoMinusOne(value_real, rows) ==
    LET inicial == value_real[rows[1]]
        final == value_real[rows[Len(rows)]]
        n_months == Len(rows)
    IN  FMul(FAdd(FPowM1(FDiv(final, inicial), PyTrueDiv(FromInt(12), FromInt(n_months)).val),
                  FromInt(1)),
             FromInt(100))

\* ((valor_final / valor_inicial) ** (12 / n_months) - 1) * 100 of one group
CagrYear(value_real, rows) ==
    LET inicial == value_real[rows[1]]
        final == value_real[rows[Len(rows)]]
        n_months == Len(rows)
    IN  FMul(FPowM1(FDiv(final, inicial), PyTrueDiv(FromInt(12), FromInt(n_months)).val),
             FromInt(100))

\* The dict the loop over groupby('year') fills.
CagrPerYear(f) ==
    [y \in {f.year[i] : i \in 1..NRows(f)} |-> CagrYear(f.value_real, GroupRows(f.year, y))]

\* The year column, the CAGR of each year and the bar chart.  The loop
\* leaves valor_inicial and valor_final at the values of the last year.
CagrPerYearCell ==
    /\ pc = "cagr_per_year"
    /\ LET withYear == [WithColumn(df_oro_ipc, "year") EXCEPT !.year = YearColumn(df_oro_ipc.period)]
           lastRows == GroupRows(withYear.year, withYear.year[NRows(withYear)])
       IN  /\ df_oro_ipc' = withYear
           /\ cagr_per_year' = CagrPerYear(withYear)
           /\ valor_inicial' = withYear.value_real[lastRows[1]]
           /\ valor_final' = withYear.value_real[lastRows[Len(lastRows)]]
    /\ plots' = Append(plots, "cagr_per_year")
    /\ pc' = "cagr"
    /\ UNCHANGED <<err, df, df_oro, df_ipc, ipc_base, n_years, cagr, files, stdout>>

\* (period.iloc[-1] - period.iloc[0]).days / 365.25
NYears(period) ==
    PyTrueDiv(FromInt(DaysBetween(period[Len(period)], period[1])), Fin(1, 1461, 4)).val

\* The CAGR of the whole period, printed.  1 / n_years is Python's division:
\* it raises ZeroDivisionError when first and last period are the same.
CagrCell ==
    /\ pc = "cagr"
    /\ valor_inicial' = df_oro_ipc.value_real[1]
    /\ valor_final' = df_oro_ipc.value_real[NRows(df_oro_ipc)]
    /\ n_years' = NYears(df_oro_ipc.period)
    /\ LET ratio == FDiv(valor_final', valor_inicial')
           exponent == PyTrueDiv(FromInt(1), n_years')
       IN  IF exponent.raised
           THEN /\ Raise("ZeroDivisionError")
                /\ UNCHANGED <<cagr, stdout>>
           ELSE /\ cagr' = FPowM1(ratio, exponent.val)
                /\ stdout' = Append(stdout, FMul(cagr', FromInt(100)))
                /\ pc' = "done"
                /\ UNCHANGED err
    /\ UNCHANGED <<df, df_oro, df_ipc, df_oro_ipc, ipc_base, cagr_per_year, plots, files>>

Next ==
    \/ FetchCell
    \/ FilterPlotCell
    \/ CpiCell
    \/ MergeCell
    \/ RealCell
    \/ ChangesCell
    \/ AnnualizedCell
    \/ ToCsvCell
    \/ CagrPerYearCell
    \/ CagrCell

Spec == Init /\ [][Next]_vars

----------------------------------------------------------------------------
(* Properties *)

IsFinite(a) == a.k \in {"fin", "irr"}

\* a == b on floats: NaN equals nothing, -0.0 equals 0.0.
FEq(a, b) ==
    /\ ~IsNaN(a)
    /\ ~IsNaN(b)
    /\ a.k = b.k
    /\ a.n = b.n
    /\ a.d = b.d
    /\ (IsZero(a) \/ a.s = b.s)

\* a > 0 and a >= 0 on floats (False for NaN).
FPos(a) == ~IsNaN(a) /\ ~IsZero(a) /\ a.s = 1

FNonNeg(a) == ~IsNaN(a) /\ (IsZero(a) \/ a.s = 1)

HasColumn(f, name) == \E i \in 1..Len(f.columns) : f.columns[i] = name

\* a >= b and a > b on floats.
FGe(a, b) == FNonNeg(FSub(a, b))

FGt(a, b) == FPos(FSub(a, b))

\* The CPI cell has run to its end.
CpiLoaded ==
    /\ pc \notin {"fetch", "filter", "cpi"}
    /\ err \notin {"FetchError", "URLError", "ValueError"}

Zero == FromInt(0)

\* C1 (as stated): after index construction and deflation of a non-empty
\* merged sequence, value_real[0] == value[0], whatever the first rate is.
C1_AnchoringAnyRate ==
    HasColumn(df_oro_ipc, "value_real") =>
        FEq(df_oro_ipc.value_real[1], df_oro_ipc.value[1])

\* C1 (amended): value_real[0] == value[0] whenever index[0] is not zero,
\* that is whenever the first rate is not -100; when it is -100, index[0] is
\* 0, the ratio index[0]/index[0] is NaN and so is value_real[0].
C1_Anchoring ==
    HasColumn(df_oro_ipc, "value_real") =>
        /\ IsZero(df_oro_ipc.IPC_indice[1]) <=> FEq(df_oro_ipc.IPC[1], FromInt(-100))
        /\ IF IsZero(df_oro_ipc.IPC_indice[1])
           THEN IsNaN(df_oro_ipc.value_real[1])
           ELSE FEq(df_oro_ipc.value_real[1], df_oro_ipc.value[1])

\* A first record with a rate other than 0 and -100 and a price other than
\* 0, deflated.
C1_Witness ==
    /\ HasColumn(df_oro_ipc, "value_real")
    /\ FEq(df_oro_ipc.IPC[1], FromInt(100))
    /\ FEq(df_oro_ipc.value[1], FromInt(2))
    /\ FEq(df_oro_ipc.value_real[1], FromInt(2))
    /\ NRows(df_oro_ipc) = 2

\* How many rows of a column hold v.
Count(col, v) == Cardinality({i \in 1..Len(col) : col[i] = v})

PeriodsOf(frame) == {frame[i].period : i \in 1..Len(frame)}

MergedPeriods == {df_oro_ipc.period[i] : i \in 1..NRows(df_oro_ipc)}

\* C2: the merged sequence holds exactly one record for each period that is
\* on or after 2000-01 and in both the price and the CPI series, none for any
\* other period, each with that period's price and rate, in the order of the
\* price series.
C2_FilterJoin ==
    HasColumn(df_oro_ipc, "period") =>
        /\ \A p \in PeriodsOf(df) \cup PeriodsOf(df_ipc) \cup MergedPeriods :
              Count(df_oro_ipc.period, p) =
                  IF p.year >= 2000 /\ p \in PeriodsOf(df) /\ p \in PeriodsOf(df_ipc)
                  THEN 1 ELSE 0
        /\ \A i \in 1..NRows(df_oro_ipc) :
              /\ \E j \in 1..Len(df) :
                    df[j].period = df_oro_ipc.period[i] /\ df[j].value = df_oro_ipc.value[i]
              /\ \E j \in 1..Len(df_ipc) :
                    df_ipc[j].period = df_oro_ipc.period[i] /\ df_ipc[j].IPC = df_oro_ipc.IPC[i]
        /\ \A i, j \in 1..NRows(df_oro_ipc) :
              i < j => \E a, b \in 1..Len(df) :
                          /\ a < b
                          /\ df[a].period = df_oro_ipc.period[i]
                          /\ df[b].period = df_oro_ipc.period[j]

\* A merge of two series that share a period before the start date and a
\* period after it, the price series having a third period the CPI lacks.
C2_Witness ==
    /\ pc = "real"
    /\ NRows(df_oro_ipc) = 1
    /\ \E p \in PeriodsOf(df) \cap PeriodsOf(df_ipc) : p.year < 2000
    /\ \E p \in PeriodsOf(df) \ PeriodsOf(df_ipc) : p.year >= 2000

\* C3 (as stated): with an empty CPI series the run ends in an error, and
\* no CSV file has been written and no plot produced before it.
C3_EmptyCpiNoOutput ==
    (CpiLoaded /\ df_ipc = <<>>) =>
        /\ pc \in {"merge", "real", "aborted"}
        /\ pc = "aborted" => err = "IndexError"
        /\ files = {}
        /\ plots = <<>>

\* C3 (amended): with an empty CPI series the run ends in the IndexError of
\* the first-row lookup on the empty merged frame; no CSV file has been
\* written, and exactly one plot, the nominal price drawn before the CPI is
\* loaded, has been produced.
C3_EmptyCpi ==
    (CpiLoaded /\ df_ipc = <<>>) =>
        /\ pc \in {"merge", "real", "aborted"}
        /\ pc = "aborted" => err = "IndexError"
        /\ NRows(df_oro_ipc) = 0
        /\ pc # "aborted" => ENABLED (MergeCell \/ RealCell)
        /\ files = {}
        /\ plots = <<"nominal">>
        /\ stdout = <<>>

\* A run on a non-empty gold series and an empty CPI series, ended.
C3_Witness ==
    /\ CpiLoaded
    /\ df_ipc = <<>>
    /\ df_oro # <<>>
    /\ pc = "aborted"
    /\ err = "IndexError"

\* C4: when the merged sequence has exactly one record, the whole-period
\* CAGR step ends the run in ZeroDivisionError (n_years is 0) and no CAGR
\* value is produced.
C4_SinglePeriod ==
    (HasColumn(df_oro_ipc, "period") /\ NRows(df_oro_ipc) = 1) =>
        /\ pc # "done"
        /\ pc = "aborted" =>
              /\ err = "ZeroDivisionError"
              /\ IsZero(n_years)
              /\ HasColumn(df_oro_ipc, "year")
        /\ cagr = Unset
        /\ stdout = <<>>

\* A run on a single merged record, ended by the whole-period CAGR step.
C4_Witness ==
    /\ NRows(df_oro_ipc) = 1
    /\ pc = "aborted"
    /\ err = "ZeroDivisionError"
    /\ FPos(df_oro_ipc.value_real[1])

\* C5 (as stated): a run that ends in a failure has rendered no plot and
\* written no CSV file when it aborts.
C5_NoPartialOutput ==
    pc = "aborted" => (plots = <<>> /\ files = {})

\* C5 (amended): a failed gold fetch aborts before any output; a failed CPI
\* load or parse and an empty join abort after the first plot only and
\* before any CSV write; the zero-duration whole-period CAGR aborts after
\* all five plots and the CSV write.
C5_OutputsAtFailure ==
    pc = "aborted" =>
        /\ err \in {"FetchError", "URLError", "ValueError", "IndexError", "ZeroDivisionError"}
        /\ err = "FetchError" => (plots = <<>> /\ files = {})
        /\ err \in {"URLError", "ValueError", "IndexError"} =>
              (plots = <<"nominal">> /\ files = {})
        /\ err = "ZeroDivisionError" =>
              /\ plots = <<"nominal", "nominal_vs_real", "cumulative", "annualized", "cagr_per_year">>
              /\ \E w \in files : w.name = "precio_oro_eur.csv"
        /\ stdout = <<>>

\* A run ended by the whole-period CAGR step, its outputs produced.
C5_Witness ==
    /\ pc = "aborted"
    /\ err = "ZeroDivisionError"
    /\ Len(plots) = 5
    /\ files # {}

DerivedColumns ==
    <<"period", "value", "IPC", "IPC_indice", "value_real", "real_monthly_change",
      "real_cumulative_change", "real_annualized_change">>

\* C6 (as stated): in a successful run the table written to CSV has all the
\* derived columns, the year column included.
C6_CsvHasYear ==
    /\ pc = "done" => files # {}
    /\ \A w \in files :
          /\ \A i \in 1..Len(DerivedColumns) : HasColumn(w.frame, DerivedColumns[i])
          /\ HasColumn(w.frame, "year")

\* C6 (amended): the table written to CSV has the columns period, value,
\* rate, index, value_real, monthly, cumulative and annualized change, all
\* computed when the write happens; the year column is not among them: it is
\* added to the table only after the write.
C6_CsvColumns ==
    /\ pc = "done" => files # {}
    /\ \A w \in files :
          /\ w.name = "precio_oro_eur.csv"
          /\ w.frame.columns = DerivedColumns
          /\ w.frame.year = <<>>
          /\ NRows(w.frame) > 0
          /\ Len(w.frame.IPC_indice) = NRows(w.frame)
          /\ Len(w.frame.value_real) = NRows(w.frame)
          /\ Len(w.frame.real_monthly_change) = NRows(w.frame)
          /\ Len(w.frame.real_cumulative_change) = NRows(w.frame)
          /\ Len(w.frame.real_annualized_change) = NRows(w.frame)
          /\ HasColumn(df_oro_ipc, "year") =>
                df_oro_ipc = [WithColumn(w.frame, "year") EXCEPT !.year = df_oro_ipc.year]

\* A successful run: the CSV written, the year column in the table.
C6_Witness ==
    /\ pc = "done"
    /\ files # {}
    /\ HasColumn(df_oro_ipc, "year")
    /\ Len(df_oro_ipc.year) = NRows(df_oro_ipc)

\* C7: a successful run has written 'precio_oro_eur.csv' with the filtered
\* nominal gold series (period, value) and 'ipc_general.csv' with the CPI
\* series.
C7_TwoCsvFiles ==
    pc = "done" =>
        /\ \E w \in files :
              /\ w.name = "precio_oro_eur.csv"
              /\ w.frame.columns = <<"period", "value">>
              /\ w.frame.period = [i \in 1..Len(df_oro) |-> df_oro[i].period]
              /\ w.frame.value = [i \in 1..Len(df_oro) |-> df_oro[i].value]
        /\ \E w \in files : w.name = "ipc_general.csv"

\* a <= 0 on floats.
FNonPos(a) == ~IsNaN(a) /\ (IsZero(a) \/ a.s = -1)

\* The rows of the merged frame whose period is of year y.
RowsOfYear(y) == {i \in 1..NRows(df_oro_ipc) : df_oro_ipc.period[i].year = y}

FirstOf(rows) == CHOOSE i \in rows : \A j \in rows : i <= j

LastOf(rows) == CHOOSE i \in rows : \A j \in rows : i >= j

YearsOfMerged == {df_oro_ipc.period[i].year : i \in 1..NRows(df_oro_ipc)}

\* C8: a per-year or whole-period CAGR is never stored or printed for a
\* value_real base or numerator that is zero or negative: such a run ends
\* in an error instead.
C8_NonPositiveGuarded ==
    /\ HasColumn(df_oro_ipc, "year") =>
          \A y \in YearsOfMerged :
              /\ ~FNonPos(df_oro_ipc.value_real[FirstOf(RowsOfYear(y))])
              /\ ~FNonPos(df_oro_ipc.value_real[LastOf(RowsOfYear(y))])
    /\ pc = "done" =>
          /\ ~FNonPos(df_oro_ipc.value_real[1])
          /\ ~FNonPos(df_oro_ipc.value_real[NRows(df_oro_ipc)])
          /\ IsFinite(cagr)

\* The running product of C9: index[0] = 100*(1+rate[0]/100) and
\* index[i] = index[i-1]*(1+rate[i]/100).
IndexIsRunningProduct ==
    \A i \in 1..NRows(df_oro_ipc) :
        FEq(df_oro_ipc.IPC_indice[i],
            FMul(IF i = 1 THEN FromInt(100) ELSE df_oro_ipc.IPC_indice[i - 1],
                 FAdd(FromInt(1), FDiv(df_oro_ipc.IPC[i], FromInt(100)))))

RatesFrom(low) == \A i \in 1..NRows(df_oro_ipc) : FGe(df_oro_ipc.IPC[i], low)

\* C9 (as stated): the index is the running product, and if every rate is
\* >= -100 every index[i] is strictly positive.
C9_IndexPositive ==
    HasColumn(df_oro_ipc, "IPC_indice") =>
        /\ IndexIsRunningProduct
        /\ RatesFrom(FromInt(-100)) =>
              \A i \in 1..NRows(df_oro_ipc) : FPos(df_oro_ipc.IPC_indice[i])

\* C9 (amended): the index is the running product, and if every rate is
\* >= -100 every index[i] is non-negative: it is strictly positive up to
\* the first rate of exactly -100, and 0 from that record on.
C9_IndexNonNegative ==
    HasColumn(df_oro_ipc, "IPC_indice") =>
        /\ IndexIsRunningProduct
        /\ RatesFrom(FromInt(-100)) =>
              \A i \in 1..NRows(df_oro_ipc) :
                  /\ FNonNeg(df_oro_ipc.IPC_indice[i])
                  /\ FPos(df_oro_ipc.IPC_indice[i]) <=>
                        \A j \in 1..i : FGt(df_oro_ipc.IPC[j], FromInt(-100))

\* An index over rates >= -100 that is positive and then, at a rate of
\* -100, zero.
C9_Witness ==
    /\ HasColumn(df_oro_ipc, "IPC_indice")
    /\ NRows(df_oro_ipc) = 2
    /\ FEq(df_oro_ipc.IPC[1], FromInt(100))
    /\ FEq(df_oro_ipc.IPC[2], FromInt(-100))
    /\ FEq(df_oro_ipc.IPC_indice[1], FromInt(200))
    /\ IsZero(df_oro_ipc.IPC_indice[2])

\* The per-year CAGR of C10: one value per calendar year of the merged
\* periods, ((value_real[last]/value_real[first])^(12/n) - 1) in percent.
PerYearCagrAsDefined ==
    /\ DOMAIN cagr_per_year = YearsOfMerged
    /\ \A y \in YearsOfMerged :
          LET n == Cardinality(RowsOfYear(y))
              ratio == FDiv(df_oro_ipc.value_real[LastOf(RowsOfYear(y))],
                            df_oro_ipc.value_real[FirstOf(RowsOfYear(y))])
              expected == FMul(FPowM1(ratio, Fin(1, 12, n)), FromInt(100))
          IN  cagr_per_year[y] = expected

\* C10 (as stated): the per-year CAGR is as defined, and it is 0 for every
\* year with exactly one record.
C10_SingleMonthZero ==
    HasColumn(df_oro_ipc, "year") =>
        /\ PerYearCagrAsDefined
        /\ \A y \in YearsOfMerged :
              Cardinality(RowsOfYear(y)) = 1 => FEq(cagr_per_year[y], Zero)

\* C10 (amended): the per-year CAGR is as defined; for a year with exactly
\* one record it is 0 when that record's value_real is finite and not zero,
\* and NaN when it is zero, infinite or NaN.
C10_SingleMonth ==
    HasColumn(df_oro_ipc, "year") =>
        /\ PerYearCagrAsDefined
        /\ \A y \in YearsOfMerged :
              Cardinality(RowsOfYear(y)) = 1 =>
                  LET v == df_oro_ipc.value_real[FirstOf(RowsOfYear(y))]
                  IN  IF v.k = "fin" /\ ~IsZero(v)
                      THEN FEq(cagr_per_year[y], Zero)
                      ELSE IsNaN(cagr_per_year[y])

\* Two records of different years, the second deflated to another real
\* value than the first: each year's CAGR is 0.
C10_Witness ==
    /\ HasColumn(df_oro_ipc, "year")
    /\ NRows(df_oro_ipc) = 2
    /\ Cardinality(YearsOfMerged) = 2
    /\ FPos(df_oro_ipc.value_real[1])
    /\ df_oro_ipc.value_real[2].k = "fin"
    /\ FPos(df_oro_ipc.value_real[2])
    /\ ~FEq(df_oro_ipc.value_real[1], df_oro_ipc.value_real[2])
    /\ \A y \in YearsOfMerged : FEq(cagr_per_year[y], Zero)

====
